---------------------------- MODULE Spec2Model ----------------------------
(***************************************************************************)
(* A model of the imgui renderer for wgpu (src/src/lib.rs): the Renderer's *)
(* per-frame geometry stream (append_indices, append_vertices,            *)
(* upload_buffers), the replay of the draw commands in render, and the     *)
(* texture table behind upload_texture.                                    *)
(*                                                                         *)
(* Element data is kept symbolically.  A staged array is a sequence of     *)
(* segments [f, l, n]: the n elements of draw list l of frame f.  A byte   *)
(* buffer is a sequence of runs [f, off, n]: n bytes taken from byte       *)
(* offset off of the array staged in frame f, f = 0 standing for the zero  *)
(* bytes Vec::resize fills in.  Counts, offsets and byte lengths are the   *)
(* program's own numbers.                                                  *)
(*                                                                         *)
(* A panic (Option::unwrap on None) ends the model of the renderer: pc     *)
(* becomes "panicked" and no operation is enabled afterwards.              *)
(***************************************************************************)
EXTENDS Integers, Sequences, FiniteSets

\* ------------------------------------------------------------ constants

MAX_INDEX_COUNT == 65535

MAX_VERTEX_COUNT == 65535

\* size_of!(DrawIdx): u16
SizeOfDrawIdx == 2

\* size_of!(DrawVert): pos [f32; 2], uv [f32; 2], col [u8; 4]
SizeOfDrawVert == 20

\* The extra elements the GPU buffers are allocated with
BufferSlack == 16

\* ---------------------------------------------------------------- bounds

\* draw lists per frame
MaxLists == 2

\* frames rendered
MaxFrames == 2

\* draw commands replayed per draw list
MaxCmds == 2

\* texture handles ever issued
MaxTex == 3

\* clip rectangle coordinates are given in units of 1/ClipDen
ClipDen == 2

\* ------------------------------------------------------- pure helpers

RECURSIVE SumN(_)
\* Vec::len of a staged array: the number of elements in its segments
SumN(segs) ==
    IF segs = <<>> THEN 0 ELSE Head(segs).n + SumN(Tail(segs))

RECURSIVE BytesLen(_)
\* Vec<u8>::len of a byte buffer
BytesLen(runs) ==
    IF runs = <<>> THEN 0 ELSE Head(runs).n + BytesLen(Tail(runs))

RECURSIVE DropBytes(_, _)
\* the bytes of a buffer from byte k on
DropBytes(runs, k) ==
    IF k = 0 \/ runs = <<>> THEN runs
    ELSE IF Head(runs).n <= k THEN DropBytes(Tail(runs), k - Head(runs).n)
    ELSE LET h == Head(runs)
         IN  <<[f |-> h.f, off |-> IF h.f = 0 THEN 0 ELSE h.off + k, n |-> h.n - k]>>
                 \o Tail(runs)

RECURSIVE TakeBytes(_, _)
\* the first k bytes of a buffer
TakeBytes(runs, k) ==
    IF k = 0 \/ runs = <<>> THEN <<>>
    ELSE IF Head(runs).n <= k
         THEN <<Head(runs)>> \o TakeBytes(Tail(runs), k - Head(runs).n)
    ELSE <<[f |-> Head(runs).f, off |-> Head(runs).off, n |-> k]>>

\* Vec<u8>::resize(size, 0)
ResizeBytes(runs, size) ==
    IF BytesLen(runs) < size
    THEN runs \o <<[f |-> 0, off |-> 0, n |-> size - BytesLen(runs)]>>
    ELSE TakeBytes(runs, size)

\* libc::memcpy(dst.as_mut_ptr(), src.as_ptr(), n) with src the array staged
\* in frame fr: the first n bytes of dst become bytes 0..n of that array.
\* Only the part of the copy that lies inside dst is kept in dst.
Memcpy(dst, fr, n) ==
    LET m == IF n <= BytesLen(dst) THEN n ELSE BytesLen(dst)
    IN  (IF m = 0 THEN <<>> ELSE <<[f |-> fr, off |-> 0, n |-> m]>>)
            \o DropBytes(dst, m)

\* the byte length upload_buffers resizes the index byte buffer to
IndexUploadSize ==
    LET size == MAX_INDEX_COUNT * SizeOfDrawIdx
    IN  size + (4 - (size % 4))

\* the byte length upload_buffers resizes the vertex byte buffer to
VertexUploadSize ==
    LET size == MAX_VERTEX_COUNT * SizeOfDrawVert
    IN  size + (4 - (size % 4))

\* the size the index buffer is created with
IndexBufferSize == (MAX_INDEX_COUNT + BufferSlack) * SizeOfDrawIdx

\* the size the vertex buffer is created with
VertexBufferSize == (MAX_VERTEX_COUNT + BufferSlack) * SizeOfDrawVert

\* f32 -> u32 `as` cast of an integral value: it saturates, at 0 below and
\* at u32::MAX above (a value the model checker's integers do not reach)
AsU32(x) == IF x < 0 THEN 0 ELSE x

\* f32::floor of x / ClipDen
Floor(x) == x \div ClipDen

\* f32::ceil of x / ClipDen
Ceil(x) == -((-x) \div ClipDen)

Abs(x) == IF x < 0 THEN -x ELSE x

Max(a, b) == IF a >= b THEN a ELSE b

\* a variant that takes the clip rectangle's max corner for its size
ScissorFromMaxCorner(clip) ==
    << AsU32(Floor(Max(clip[1], 0))),
       AsU32(Floor(Max(clip[2], 0))),
       AsU32(Ceil(Abs(clip[3]))),
       AsU32(Ceil(Abs(clip[4]))) >>

\* the scissor tuple render computes from cmd_params.clip_rect
Scissor(clip) ==
    << AsU32(Floor(Max(clip[1], 0))),
       AsU32(Floor(Max(clip[2], 0))),
       AsU32(Ceil(Abs(clip[3] - clip[1]))),
       AsU32(Ceil(Abs(clip[4] - clip[2]))) >>

\* ------------------------------------------------------- texture table

\* imgui::Textures::new
TexturesNew == [map |-> [h \in {} |-> 0], next |-> 0]

\* imgui::Textures::insert: the table after the insert; the id it returns
\* is t.next
TexturesInsert(t, texture) ==
    [map  |-> [h \in (DOMAIN t.map) \cup {t.next} |->
                  IF h = t.next THEN texture ELSE t.map[h]],
     next |-> t.next + 1]

\* imgui::Textures::remove
TexturesRemove(t, id) ==
    [map  |-> [h \in (DOMAIN t.map) \ {id} |-> t.map[h]],
     next |-> t.next]

\* imgui::Textures::get, an Option
TexturesGet(t, id) ==
    IF id \in DOMAIN t.map
    THEN [some |-> TRUE, v |-> t.map[id]]
    ELSE [some |-> FALSE, v |-> 0]

\* ------------------------------------------------------- geometry stream

\* a variant whose capacity test admits a total equal to the capacity
append_indices_inclusive(indices, seg) ==
    LET offset == SumN(indices)
        count  == seg.n
    IN  IF offset + count <= MAX_INDEX_COUNT
        THEN [some |-> TRUE, v |-> offset,
              vec  |-> IF count = 0 THEN indices ELSE Append(indices, seg)]
        ELSE [some |-> FALSE, v |-> 0, vec |-> indices]

\* Renderer::append_indices: an Option<u64> and the array afterwards
append_indices(indices, seg) ==
    LET offset == SumN(indices)
        count  == seg.n
    IN  IF offset + count < MAX_INDEX_COUNT
        THEN [some |-> TRUE, v |-> offset,
              vec  |-> IF count = 0 THEN indices ELSE Append(indices, seg)]
        ELSE [some |-> FALSE, v |-> 0, vec |-> indices]

\* a variant that returns the length after the append
append_vertices_end(vertices, seg) ==
    LET offset == SumN(vertices)
        count  == seg.n
    IN  IF offset + count < MAX_VERTEX_COUNT
        THEN [some |-> TRUE, v |-> offset + count,
              vec  |-> IF count = 0 THEN vertices ELSE Append(vertices, seg)]
        ELSE [some |-> FALSE, v |-> 0, vec |-> vertices]

\* Renderer::append_vertices: an Option<u64> and the array afterwards
append_vertices(vertices, seg) ==
    LET offset == SumN(vertices)
        count  == seg.n
    IN  IF offset + count < MAX_VERTEX_COUNT
        THEN [some |-> TRUE, v |-> offset,
              vec  |-> IF count = 0 THEN vertices ELSE Append(vertices, seg)]
        ELSE [some |-> FALSE, v |-> 0, vec |-> vertices]

\* one queue.write_buffer or libc::memcpy, as logged: n bytes moved into a
\* destination of cap bytes
Transfer(op, buf, n, cap, data) ==
    [op |-> op, buf |-> buf, offset |-> 0, n |-> n, cap |-> cap, data |-> data]

\* a variant that keeps the staged arrays after the upload
upload_buffers_keep(ind, vert, ibb, vbb, fr) ==
    LET ib == Memcpy(ResizeBytes(ibb, IndexUploadSize), fr, SumN(ind) * SizeOfDrawIdx)
        vb == Memcpy(ResizeBytes(vbb, VertexUploadSize), fr, SumN(vert) * SizeOfDrawVert)
    IN  [indices  |-> ind,
         vertices |-> vert,
         indices_byte_buffer  |-> ib,
         vertices_byte_buffer |-> vb,
         log |-> << Transfer("memcpy", "indices_byte_buffer",
                             SumN(ind) * SizeOfDrawIdx,
                             BytesLen(ResizeBytes(ibb, IndexUploadSize)), <<>>),
                    Transfer("write_buffer", "index_buffer",
                             BytesLen(ib), IndexBufferSize, ib),
                    Transfer("memcpy", "vertices_byte_buffer",
                             SumN(vert) * SizeOfDrawVert,
                             BytesLen(ResizeBytes(vbb, VertexUploadSize)), <<>>),
                    Transfer("write_buffer", "vertex_buffer",
                             BytesLen(vb), VertexBufferSize, vb) >>]

\* a variant that transfers only the staged bytes, padded to a multiple of 4
upload_buffers_staged_len(ind, vert, ibb, vbb, fr) ==
    LET il == SumN(ind) * SizeOfDrawIdx
        vl == SumN(vert) * SizeOfDrawVert
        ib == Memcpy(ResizeBytes(ibb, il + ((4 - (il % 4)) % 4)), fr, il)
        vb == Memcpy(ResizeBytes(vbb, vl + ((4 - (vl % 4)) % 4)), fr, vl)
    IN  [indices  |-> <<>>,
         vertices |-> <<>>,
         indices_byte_buffer  |-> ib,
         vertices_byte_buffer |-> vb,
         log |-> << Transfer("memcpy", "indices_byte_buffer", il, BytesLen(ib), <<>>),
                    Transfer("write_buffer", "index_buffer",
                             BytesLen(ib), IndexBufferSize, ib),
                    Transfer("memcpy", "vertices_byte_buffer", vl, BytesLen(vb), <<>>),
                    Transfer("write_buffer", "vertex_buffer",
                             BytesLen(vb), VertexBufferSize, vb) >>]

\* Renderer::upload_buffers: the four vectors afterwards and the transfers
\* made, in order
upload_buffers(ind, vert, ibb, vbb, fr) ==
    LET ib == Memcpy(ResizeBytes(ibb, IndexUploadSize), fr, SumN(ind) * SizeOfDrawIdx)
        vb == Memcpy(ResizeBytes(vbb, VertexUploadSize), fr, SumN(vert) * SizeOfDrawVert)
    IN  [indices  |-> <<>>,
         vertices |-> <<>>,
         indices_byte_buffer  |-> ib,
         vertices_byte_buffer |-> vb,
         log |-> << Transfer("memcpy", "indices_byte_buffer",
                             SumN(ind) * SizeOfDrawIdx,
                             BytesLen(ResizeBytes(ibb, IndexUploadSize)), <<>>),
                    Transfer("write_buffer", "index_buffer",
                             BytesLen(ib), IndexBufferSize, ib),
                    Transfer("memcpy", "vertices_byte_buffer",
                             SumN(vert) * SizeOfDrawVert,
                             BytesLen(ResizeBytes(vbb, VertexUploadSize)), <<>>),
                    Transfer("write_buffer", "vertex_buffer",
                             BytesLen(vb), VertexBufferSize, vb) >>]

\* ------------------------------------------------------------ draw data

\* u64 -> i32 `as` cast: the value itself below 2^31; render casts offsets,
\* which are below MAX_VERTEX_COUNT
AsI32(x) == x

\* usize/u64 -> u32 `as` cast: the value itself below 2^32; render casts
\* offsets and batch counts
ToU32(x) == x

NoCmd == [kind |-> "none", count |-> 0, clip |-> <<0, 0, 0, 0>>, tex |-> 0]

\* imgui::DrawCmd::Elements { count, cmd_params: { clip_rect, texture_id } }
Elements(count, clip, tex) ==
    [kind |-> "Elements", count |-> count, clip |-> clip, tex |-> tex]

\* imgui::DrawCmd::RawCallback
RawCallback == [kind |-> "RawCallback", count |-> 0, clip |-> <<0, 0, 0, 0>>, tex |-> 0]

\* imgui::DrawCmd::ResetRenderState, the arm `_ => {}`
ResetRenderState ==
    [kind |-> "ResetRenderState", count |-> 0, clip |-> <<0, 0, 0, 0>>, tex |-> 0]

\* clip rectangles <<x0, y0, x1, y1>> in units of 1/ClipDen: the two of the
\* scenarios, one with fractional corners, one with a negative fractional
\* min corner, one with its corners swapped
ClipRects ==
    { <<0, 0, 100 * ClipDen, 100 * ClipDen>>,
      <<-5 * ClipDen, -5 * ClipDen, 50 * ClipDen, 50 * ClipDen>>,
      <<1, 2 * ClipDen + 1, 10 * ClipDen + 1, 7 * ClipDen - 1>>,
      <<-1, 3 * ClipDen, 4 * ClipDen, 3 * ClipDen + 1>>,
      <<7 * ClipDen, 2 * ClipDen, 3 * ClipDen - 1, 9 * ClipDen>> }

\* the draw commands of the replay specification: batches of 3 and 6
\* indices with every clip rectangle and the font atlas' texture, a batch
\* with a handle the table never issues (MaxTex), the other kinds of command
AllCmds ==
    { Elements(n, clip, 0) : n \in {3, 6}, clip \in ClipRects }
        \cup { Elements(3, <<0, 0, 100 * ClipDen, 100 * ClipDen>>, MaxTex) }
        \cup {RawCallback, ResetRenderState}

\* the draw commands of the geometry-stream specification
StreamCmds ==
    { Elements(3, <<0, 0, 100 * ClipDen, 100 * ClipDen>>, 0), RawCallback }

\* the draw commands of the texture specification: a batch with any texture
\* handle, MaxTex being one the table never issues
TextureCmds ==
    { Elements(3, <<0, 0, 100 * ClipDen, 100 * ClipDen>>, tex) : tex \in 0..MaxTex }
        \cup {RawCallback}

\* draw lists that reach the capacity: an empty one, a small one with more
\* indices than vertices, one of which two fit (65534 elements, the largest total
\* below the capacity) and three do not, one with indices and no vertices,
\* one whose indices alone, one whose vertices alone and one whose indices
\* and vertices exceed the capacity
StreamShapes ==
    { [idx |-> 0, vtx |-> 0],
      [idx |-> 6, vtx |-> 4],
      [idx |-> 32767, vtx |-> 32767],
      [idx |-> 3, vtx |-> 0],
      [idx |-> MAX_INDEX_COUNT, vtx |-> 3],
      [idx |-> 3, vtx |-> MAX_VERTEX_COUNT],
      [idx |-> MAX_INDEX_COUNT, vtx |-> MAX_VERTEX_COUNT] }

\* the draw lists of the scenarios: 3 vertices / 3 indices, 4 vertices / 6 indices
SmallShapes == { [idx |-> 3, vtx |-> 3], [idx |-> 6, vtx |-> 4] }

\* the draw list of the texture specification
OneShape == { [idx |-> 3, vtx |-> 3] }

\* DrawData::draw_lists of a frame: up to MaxLists draw lists
FramesOf(shapes) == UNION { [1..n -> shapes] : n \in 0..MaxLists }

\* ----------------------------------------------------------------- state

VARIABLES
    pc,                    \* "idle", "append", "replay", "panicked"
    panic_at,              \* which unwrap panicked
    frame,                 \* number of the frame being rendered
    draw_data,             \* the frame's draw lists: their index and vertex counts
    indices,               \* Renderer::indices
    vertices,              \* Renderer::vertices
    indices_byte_buffer,   \* Renderer::indices_byte_buffer
    vertices_byte_buffer,  \* Renderer::vertices_byte_buffer
    textures,              \* Renderer::textures
    created,               \* Texture resources created so far
    font_tex_id,           \* the font atlas' tex_id held by the imgui context
    ret,                   \* the handle the last registration returned
    offsets,               \* render's local `offsets`
    recorded,              \* every pair pushed to `offsets` in this frame
    li,                    \* the draw list being replayed (0: none yet)
    in_list,               \* inside the replay of draw list li
    ncmd,                  \* commands of draw list li replayed so far
    idx_offset,            \* render's local `idx_offset`
    vtx_offset,            \* render's local `vtx_offset`
    idx_begin,             \* render's local `idx_begin`
    consumed,              \* index count of the Elements batches of list li drawn so far
    cmd,                   \* the draw command replayed last
    calls,                 \* the render pass calls of the last step
    writes                 \* the queue writes and copies of this frame

vars ==
    << pc, panic_at, frame, draw_data, indices, vertices, indices_byte_buffer,
       vertices_byte_buffer, textures, created, font_tex_id, ret, offsets,
       recorded, li, in_list, ncmd, idx_offset, vtx_offset, idx_begin, consumed,
       cmd, calls, writes >>

streamVars ==
    << indices, vertices, indices_byte_buffer, vertices_byte_buffer >>

textureVars == << textures, created, font_tex_id, ret >>

replayVars ==
    << li, in_list, ncmd, idx_offset, vtx_offset, idx_begin, consumed, cmd >>

\* Renderer::new: the font atlas is the first texture of a new table; the
\* staging arrays and byte buffers are empty
Init ==
    /\ pc = "idle"
    /\ panic_at = "none"
    /\ frame = 0
    /\ draw_data = <<>>
    /\ indices = <<>>
    /\ vertices = <<>>
    /\ indices_byte_buffer = <<>>
    /\ vertices_byte_buffer = <<>>
    /\ textures = TexturesInsert(TexturesNew, 0)
    /\ created = 1
    /\ font_tex_id = 0
    /\ ret = 0
    /\ offsets = <<>>
    /\ recorded = <<>>
    /\ li = 0
    /\ in_list = FALSE
    /\ ncmd = 0
    /\ idx_offset = 0
    /\ vtx_offset = 0
    /\ idx_begin = 0
    /\ consumed = 0
    /\ cmd = NoCmd
    /\ calls = <<>>
    /\ writes = <<>>

\* --------------------------------------------------------------- textures

\* a variant that stores the texture under the number of live textures
upload_texture_by_len ==
    /\ pc = "idle"
    /\ textures.next < MaxTex
    /\ LET texture == created
           id      == Cardinality(DOMAIN textures.map)
       IN  /\ textures' =
                  [map  |-> [h \in (DOMAIN textures.map) \cup {id} |->
                                IF h = id THEN texture ELSE textures.map[h]],
                   next |-> textures.next + 1]
           /\ ret' = id
    /\ created' = created + 1
    /\ UNCHANGED << pc, panic_at, frame, draw_data, streamVars, font_tex_id,
                    offsets, recorded, replayVars, calls, writes >>

\* Renderer::upload_texture: Texture::new, then textures.insert
upload_texture ==
    /\ pc = "idle"
    /\ textures.next < MaxTex
    /\ LET texture == created
       IN  /\ textures' = TexturesInsert(textures, texture)
           /\ ret' = textures.next
    /\ created' = created + 1
    /\ UNCHANGED << pc, panic_at, frame, draw_data, streamVars, font_tex_id,
                    offsets, recorded, replayVars, calls, writes >>

\* removal of a registered texture from the texture table
remove_texture ==
    /\ pc = "idle"
    /\ \E id \in DOMAIN textures.map :
           textures' = TexturesRemove(textures, id)
    /\ UNCHANGED << pc, panic_at, frame, draw_data, streamVars, created,
                    font_tex_id, ret, offsets, recorded, replayVars, calls,
                    writes >>

\* reload_font_texture: the registered font atlas is removed, a new one is
\* created and registered, and its handle is written to the font atlas
reload_font_texture ==
    /\ pc = "idle"
    /\ textures.next < MaxTex
    /\ LET removed == TexturesRemove(textures, font_tex_id)
           texture == created
       IN  /\ textures' = TexturesInsert(removed, texture)
           /\ ret' = removed.next
           /\ font_tex_id' = removed.next
    /\ created' = created + 1
    /\ UNCHANGED << pc, panic_at, frame, draw_data, streamVars, offsets,
                    recorded, replayVars, calls, writes >>

\* ----------------------------------------------------------------- render

\* render, up to the first loop: the projection matrix is written to the
\* uniform buffer and `offsets` starts empty
render_begin(frames) ==
    /\ pc = "idle"
    /\ frame < MaxFrames
    /\ \E dd \in frames : draw_data' = dd
    /\ frame' = frame + 1
    /\ pc' = "append"
    /\ offsets' = <<>>
    /\ recorded' = <<>>
    /\ calls' = <<>>
    /\ writes' = << Transfer("write_buffer", "uniform_buffer", 64, 64, <<>>) >>
    /\ UNCHANGED << panic_at, streamVars, textureVars, replayVars >>

\* one iteration of the first loop: the draw list's indices, then its
\* vertices, are appended and the pair of offsets is pushed; unwrap panics
\* on the first append that returns None
render_append ==
    /\ pc = "append"
    /\ Len(offsets) < Len(draw_data)
    /\ LET k  == Len(offsets) + 1
           ri == append_indices(indices, [f |-> frame, l |-> k, n |-> draw_data[k].idx])
           rv == append_vertices(vertices, [f |-> frame, l |-> k, n |-> draw_data[k].vtx])
       IN  IF ~ri.some
           THEN /\ pc' = "panicked"
                /\ panic_at' = "append_indices"
                /\ UNCHANGED << indices, vertices, offsets, recorded >>
           ELSE IF ~rv.some
           THEN /\ pc' = "panicked"
                /\ panic_at' = "append_vertices"
                /\ indices' = ri.vec
                /\ UNCHANGED << vertices, offsets, recorded >>
           ELSE /\ indices' = ri.vec
                /\ vertices' = rv.vec
                /\ offsets' = Append(offsets, <<ri.v, rv.v>>)
                /\ recorded' = Append(recorded, <<ri.v, rv.v>>)
                /\ UNCHANGED << pc, panic_at >>
    /\ UNCHANGED << frame, draw_data, indices_byte_buffer, vertices_byte_buffer,
                    textureVars, replayVars, calls, writes >>

\* after the first loop: upload_buffers, then the pipeline, the two buffers
\* and the uniform bind group are set on the render pass
render_upload ==
    /\ pc = "append"
    /\ Len(offsets) = Len(draw_data)
    /\ LET u == upload_buffers(indices, vertices, indices_byte_buffer,
                               vertices_byte_buffer, frame)
       IN  /\ indices' = u.indices
           /\ vertices' = u.vertices
           /\ indices_byte_buffer' = u.indices_byte_buffer
           /\ vertices_byte_buffer' = u.vertices_byte_buffer
           /\ writes' = writes \o u.log
    /\ calls' = << <<"set_pipeline">>, <<"set_index_buffer">>,
                   <<"set_vertex_buffer", 0>>, <<"set_bind_group", 0>> >>
    /\ pc' = "replay"
    /\ li' = 0
    /\ in_list' = FALSE
    /\ ncmd' = 0
    /\ cmd' = NoCmd
    /\ UNCHANGED << panic_at, frame, draw_data, textureVars, offsets, recorded,
                    idx_offset, vtx_offset, idx_begin, consumed >>

\* the head of an iteration of the second loop: the first pair of `offsets`
\* is taken and removed, and idx_begin starts at its index offset
render_list ==
    /\ pc = "replay"
    /\ ~in_list
    /\ li < Len(draw_data)
    /\ idx_offset' = Head(offsets)[1]
    /\ vtx_offset' = Head(offsets)[2]
    /\ offsets' = Tail(offsets)
    /\ idx_begin' = ToU32(Head(offsets)[1])
    /\ li' = li + 1
    /\ in_list' = TRUE
    /\ ncmd' = 0
    /\ consumed' = 0
    /\ cmd' = NoCmd
    /\ calls' = <<>>
    /\ UNCHANGED << pc, panic_at, frame, draw_data, streamVars, textureVars,
                    recorded, writes >>

\* a variant that skips a batch whose texture is not in the table
draw_cmd_skip_missing(c, begin, base, table) ==
    IF c.kind = "Elements"
    THEN LET scissor == Scissor(c.clip)
             texture == TexturesGet(table, c.tex)
             idx_end == begin + ToU32(c.count)
             set     == <<"set_scissor_rect", scissor[1], scissor[2], scissor[3], scissor[4]>>
         IN  IF ~texture.some
             THEN [panic |-> FALSE, idx_begin |-> begin, calls |-> <<set>>]
             ELSE [panic |-> FALSE, idx_begin |-> idx_end,
                   calls |-> << set,
                                <<"set_bind_group", 1, texture.v>>,
                                <<"draw_indexed", begin, idx_end, AsI32(base), 0, 1>> >>]
    ELSE IF c.kind = "RawCallback"
    THEN [panic |-> FALSE, idx_begin |-> begin, calls |-> << <<"callback">> >>]
    ELSE [panic |-> FALSE, idx_begin |-> begin, calls |-> <<>>]

\* a variant that passes the index offset as the base vertex
draw_cmd_index_base(c, begin, base, table) ==
    IF c.kind = "Elements"
    THEN LET scissor == Scissor(c.clip)
             texture == TexturesGet(table, c.tex)
             idx_end == begin + ToU32(c.count)
             set     == <<"set_scissor_rect", scissor[1], scissor[2], scissor[3], scissor[4]>>
         IN  IF ~texture.some
             THEN [panic |-> TRUE, idx_begin |-> begin, calls |-> <<set>>]
             ELSE [panic |-> FALSE, idx_begin |-> idx_end,
                   calls |-> << set,
                                <<"set_bind_group", 1, texture.v>>,
                                <<"draw_indexed", begin, idx_end, AsI32(begin), 0, 1>> >>]
    ELSE IF c.kind = "RawCallback"
    THEN [panic |-> FALSE, idx_begin |-> begin, calls |-> << <<"callback">> >>]
    ELSE [panic |-> FALSE, idx_begin |-> begin, calls |-> <<>>]

\* the match on one draw command: the render pass calls it makes, whether
\* textures.get(..).unwrap() panics, and idx_begin afterwards
draw_cmd(c, begin, base, table) ==
    IF c.kind = "Elements"
    THEN LET scissor == Scissor(c.clip)
             texture == TexturesGet(table, c.tex)
             idx_end == begin + ToU32(c.count)
             set     == <<"set_scissor_rect", scissor[1], scissor[2], scissor[3], scissor[4]>>
         IN  IF ~texture.some
             THEN [panic |-> TRUE, idx_begin |-> begin, calls |-> <<set>>]
             ELSE [panic |-> FALSE, idx_begin |-> idx_end,
                   calls |-> << set,
                                <<"set_bind_group", 1, texture.v>>,
                                <<"draw_indexed", begin, idx_end, AsI32(base), 0, 1>> >>]
    ELSE IF c.kind = "RawCallback"
    THEN [panic |-> FALSE, idx_begin |-> begin, calls |-> << <<"callback">> >>]
    ELSE [panic |-> FALSE, idx_begin |-> begin, calls |-> <<>>]

\* one iteration of the loop over draw_list.commands(): the iterator yields
\* a command and the match handles it
render_cmd(cmds) ==
    /\ pc = "replay"
    /\ in_list
    /\ ncmd < MaxCmds
    /\ \E c \in cmds :
           LET r == draw_cmd(c, idx_begin, vtx_offset, textures)
           IN  /\ cmd' = c
               /\ calls' = r.calls
               /\ idx_begin' = r.idx_begin
               /\ consumed' = IF c.kind = "Elements" /\ ~r.panic
                              THEN consumed + c.count ELSE consumed
               /\ pc' = IF r.panic THEN "panicked" ELSE pc
               /\ panic_at' = IF r.panic THEN "texture" ELSE panic_at
    /\ ncmd' = ncmd + 1
    /\ UNCHANGED << frame, draw_data, streamVars, textureVars, offsets,
                    recorded, li, in_list, idx_offset, vtx_offset, writes >>

\* draw_list.commands() is exhausted: the iteration of the second loop ends
render_list_end ==
    /\ pc = "replay"
    /\ in_list
    /\ in_list' = FALSE
    /\ cmd' = NoCmd
    /\ calls' = <<>>
    /\ UNCHANGED << pc, panic_at, frame, draw_data, streamVars, textureVars,
                    offsets, recorded, li, ncmd, idx_offset, vtx_offset,
                    idx_begin, consumed, writes >>

\* the second loop is over: render returns, and its arguments and locals
\* are gone
render_end ==
    /\ pc = "replay"
    /\ ~in_list
    /\ li = Len(draw_data)
    /\ pc' = "idle"
    /\ draw_data' = <<>>
    /\ offsets' = <<>>
    /\ recorded' = <<>>
    /\ li' = 0
    /\ ncmd' = 0
    /\ idx_offset' = 0
    /\ vtx_offset' = 0
    /\ idx_begin' = 0
    /\ consumed' = 0
    /\ cmd' = NoCmd
    /\ calls' = <<>>
    /\ writes' = <<>>
    /\ UNCHANGED << panic_at, frame, streamVars, textureVars, in_list >>

\* ---------------------------------------------------------- specifications

\* the replay of small frames with every kind of draw command and clip
\* rectangle
Next ==
    \/ render_begin(FramesOf(SmallShapes))
    \/ render_append
    \/ render_upload
    \/ render_list
    \/ render_cmd(AllCmds)
    \/ render_list_end
    \/ render_end

Spec == Init /\ [][Next]_vars

\* frames whose draw lists reach the stream's capacity
NextStream ==
    \/ render_begin(FramesOf(StreamShapes))
    \/ render_append
    \/ render_upload
    \/ render_list
    \/ render_cmd(StreamCmds)
    \/ render_list_end
    \/ render_end

SpecStream == Init /\ [][NextStream]_vars

\* textures registered and removed between frames whose batches use any
\* handle
NextTextures ==
    \/ upload_texture
    \/ remove_texture
    \/ reload_font_texture
    \/ render_begin(FramesOf(OneShape))
    \/ render_append
    \/ render_upload
    \/ render_list
    \/ render_cmd(TextureCmds)
    \/ render_list_end
    \/ render_end

SpecTextures == Init /\ [][NextTextures]_vars

\* ----------------------------------------------------------------- claims

RECURSIVE SumIdx(_, _)
\* the index counts of draw lists 1..k of a frame, added up
SumIdx(dd, k) == IF k = 0 THEN 0 ELSE dd[k].idx + SumIdx(dd, k - 1)

RECURSIVE SumVtx(_, _)
\* the vertex counts of draw lists 1..k of a frame, added up
SumVtx(dd, k) == IF k = 0 THEN 0 ELSE dd[k].vtx + SumVtx(dd, k - 1)

AppendPanicked == pc = "panicked" /\ panic_at \in {"append_indices", "append_vertices"}

\* C1: when appending a draw list's indices or vertices fails, render does
\* not crash: it goes on with the frame's other draw lists.
C1_AppendFailureIsRecoverable == ~AppendPanicked

\* the pair recorded for draw list k is the sum of the index counts and the
\* sum of the vertex counts of draw lists 1..k-1
CumulativeOffsets ==
    \A k \in 1..Len(recorded) :
        recorded[k] = << SumIdx(draw_data, k - 1), SumVtx(draw_data, k - 1) >>

\* every draw list of the frame has been appended within capacity
FrameAppended == pc = "replay" /\ Len(recorded) = Len(draw_data)

\* C2, as stated: within capacity the recorded pairs are the cumulative
\* counts of the earlier draw lists and each pair is strictly greater than
\* the one before it (in the weakest, lexicographic, sense); stated here of
\* the frames that have indices.
C2_OffsetsStrictlyIncreasing ==
    (FrameAppended /\ SumIdx(draw_data, Len(draw_data)) > 0) =>
        /\ CumulativeOffsets
        /\ \A k \in 2..Len(recorded) :
               \/ recorded[k - 1][1] < recorded[k][1]
               \/ /\ recorded[k - 1][1] = recorded[k][1]
                  /\ recorded[k - 1][2] < recorded[k][2]

\* C2, amended: within capacity the recorded pairs are the cumulative counts
\* of the earlier draw lists; they never decrease, and a component increases
\* strictly exactly when the draw list before has elements of that kind.
C2_OffsetsCumulative ==
    /\ pc \in {"append", "replay"} => CumulativeOffsets
    /\ pc = "replay" => Len(recorded) = Len(draw_data)
    /\ \A k \in 2..Len(recorded) :
           /\ recorded[k - 1][1] <= recorded[k][1]
           /\ recorded[k - 1][2] <= recorded[k][2]
           /\ (recorded[k - 1][1] < recorded[k][1]) <=> (draw_data[k - 1].idx > 0)
           /\ (recorded[k - 1][2] < recorded[k][2]) <=> (draw_data[k - 1].vtx > 0)

\* a frame of two or more draw lists, all appended, the second behind
\* indices and vertices of the first
C2_Witness ==
    /\ FrameAppended
    /\ Len(recorded) >= 2
    /\ recorded[2][1] > 0
    /\ recorded[2][2] > 0

\* C3: an append of a draw list that fails leaves both staging arrays as
\* they were before it, whichever of the two limits is exceeded.
C3_FailedAppendLeavesStreamUntouched ==
    [][(pc = "append" /\ pc' = "panicked")
          => (indices' = indices /\ vertices' = vertices)]_vars

RECURSIVE ExpectedSegs(_, _)
\* the non-empty counts cnt[1..k] as segments of the current frame
ExpectedSegs(cnt, k) ==
    IF k = 0 THEN <<>>
    ELSE ExpectedSegs(cnt, k - 1)
             \o (IF cnt[k] = 0 THEN <<>> ELSE <<[f |-> frame, l |-> k, n |-> cnt[k]]>>)

IdxCounts == [k \in 1..Len(draw_data) |-> draw_data[k].idx]

VtxCounts == [k \in 1..Len(draw_data) |-> draw_data[k].vtx]

\* the data of the write_buffer calls made on buffer buf in this frame
WritesTo(buf) ==
    { i \in 1..Len(writes) : writes[i].op = "write_buffer" /\ writes[i].buf = buf }

\* the bytes staged for the frame, as a byte buffer
StagedRuns(bytes) ==
    IF bytes = 0 THEN <<>> ELSE << [f |-> frame, off |-> 0, n |-> bytes] >>

FrameIdxBytes == SumIdx(draw_data, Len(draw_data)) * 2

FrameVtxBytes == SumVtx(draw_data, Len(draw_data)) * 20

\* the uploads of the frame start with the frame's own staged bytes
UploadsStartWithFrame ==
    /\ \A i \in WritesTo("index_buffer") :
           TakeBytes(writes[i].data, FrameIdxBytes) = StagedRuns(FrameIdxBytes)
    /\ \A i \in WritesTo("vertex_buffer") :
           TakeBytes(writes[i].data, FrameVtxBytes) = StagedRuns(FrameVtxBytes)

\* the staging arrays hold the current frame's draw lists appended so far,
\* in order, and nothing else; they are empty after the flush; the first
\* draw list is placed at (0, 0)
StreamHoldsFrameOnly ==
    /\ pc \in {"idle", "replay"} => (indices = <<>> /\ vertices = <<>>)
    /\ pc = "append" =>
           /\ indices = ExpectedSegs(IdxCounts, Len(offsets))
           /\ vertices = ExpectedSegs(VtxCounts, Len(offsets))
    /\ Len(recorded) >= 1 => recorded[1] = <<0, 0>>

\* C4, as stated: ... and no element of a previous frame is part of the data
\* uploaded for the new frame; stated here of the frames that have indices
\* and vertices.
C4_NoCarryoverInUpload ==
    /\ StreamHoldsFrameOnly
    /\ (pc = "replay" /\ FrameIdxBytes > 0 /\ FrameVtxBytes > 0) =>
           /\ UploadsStartWithFrame
           /\ \A i \in WritesTo("index_buffer") \cup WritesTo("vertex_buffer") :
                  \A j \in 1..Len(writes[i].data) :
                      writes[i].data[j].f \in {0, frame}

\* C4, amended: the staging arrays are empty after every flush, they hold
\* exactly the new frame's draw lists in append order, the first draw list
\* of every frame is placed at (0, 0), and the uploaded data starts with
\* exactly the new frame's staged bytes; the bytes behind them, which no
\* offset of the frame refers to, may still be a longer previous frame's.
C4_NoCarryoverInStream ==
    /\ StreamHoldsFrameOnly
    /\ pc = "replay" => UploadsStartWithFrame

\* a second frame, with data, flushed after a longer first frame: the upload
\* starts with the second frame's bytes and still ends with the first's
C4_Witness ==
    /\ pc = "replay"
    /\ frame = 2
    /\ FrameIdxBytes > 0
    /\ \E i \in WritesTo("index_buffer") :
           /\ writes[i].data[1].f = 2
           /\ \E j \in 2..Len(writes[i].data) : writes[i].data[j].f = 1

\* the next multiple of 4 at or above n
PadTo4(n) == n + ((4 - (n % 4)) % 4)

\* one write per buffer at byte 0, starting with the staged bytes, and the
\* staging arrays empty afterwards
OneWritePerBuffer ==
    /\ Cardinality(WritesTo("index_buffer")) = 1
    /\ Cardinality(WritesTo("vertex_buffer")) = 1
    /\ \A i \in WritesTo("index_buffer") \cup WritesTo("vertex_buffer") :
           /\ writes[i].offset = 0
           /\ writes[i].n = BytesLen(writes[i].data)
    /\ UploadsStartWithFrame
    /\ indices = <<>>
    /\ vertices = <<>>

\* C9, as stated: each flush makes one write per buffer, of the staged
\* bytes, whose length is the staged byte length padded to a multiple of 4;
\* stated here of the flushes that have indices and vertices staged.
C9_UploadLengthIsStagedPadded ==
    (pc = "replay" /\ FrameIdxBytes > 0 /\ FrameVtxBytes > 0) =>
        /\ OneWritePerBuffer
        /\ \A i \in WritesTo("index_buffer") : writes[i].n = PadTo4(FrameIdxBytes)
        /\ \A i \in WritesTo("vertex_buffer") : writes[i].n = PadTo4(FrameVtxBytes)

\* C9, amended: each flush makes one write per buffer at byte 0, starting
\* with the staged elements in append order, whose length does not depend on
\* what is staged: it is the capacity's byte length (65535 elements) raised
\* to the next multiple of 4 above it, 131072 and 1310704 bytes; the staging
\* arrays are empty afterwards.
C9_UploadLengthIsCapacityPadded ==
    pc = "replay" =>
        /\ OneWritePerBuffer
        /\ \A i \in WritesTo("index_buffer") :
               /\ writes[i].n % 4 = 0
               /\ writes[i].n > 65535 * 2
               /\ writes[i].n <= 65535 * 2 + 4
        /\ \A i \in WritesTo("vertex_buffer") :
               /\ writes[i].n % 4 = 0
               /\ writes[i].n > 65535 * 20
               /\ writes[i].n <= 65535 * 20 + 4

\* a flush of staged indices whose byte length is not a multiple of 4
C9_Witness ==
    /\ pc = "replay"
    /\ FrameIdxBytes % 4 # 0
    /\ FrameVtxBytes > 0
    /\ \E i \in WritesTo("index_buffer") : writes[i].n = 131072
    /\ \E i \in WritesTo("vertex_buffer") : writes[i].n = 1310704

\* C10: the staged counts stay below 65535, no copy into a byte buffer is
\* longer than the byte buffer, and no write to a GPU buffer is longer than
\* the (65535 + 16) elements the buffer was created with.
C10_TransfersFit ==
    /\ SumN(indices) < 65535
    /\ SumN(vertices) < 65535
    /\ \A i \in 1..Len(writes) :
           /\ writes[i].op = "memcpy" => writes[i].n <= writes[i].cap
           /\ writes[i].buf = "indices_byte_buffer" =>
                  writes[i].cap = BytesLen(indices_byte_buffer)
           /\ writes[i].buf = "vertices_byte_buffer" =>
                  writes[i].cap = BytesLen(vertices_byte_buffer)
           /\ writes[i].buf = "index_buffer" => writes[i].n <= (65535 + 16) * 2
           /\ writes[i].buf = "vertex_buffer" => writes[i].n <= (65535 + 16) * 20

\* a flush of the largest frame that fits: 65534 indices and vertices
C10_Witness ==
    /\ pc = "replay"
    /\ \E i \in 1..Len(writes) :
           /\ writes[i].op = "memcpy"
           /\ writes[i].buf = "indices_byte_buffer"
           /\ writes[i].n = 65534 * 2
    /\ \E i \in 1..Len(writes) :
           /\ writes[i].op = "memcpy"
           /\ writes[i].buf = "vertices_byte_buffer"
           /\ writes[i].n = 65534 * 20

DrawCalls == { i \in 1..Len(calls) : calls[i][1] = "draw_indexed" }

\* C5: draw lists are replayed in the order their offsets were recorded; the
\* index cursor of a list starts at its recorded index offset; an Elements
\* batch issues one indexed draw over [cursor, cursor + count) with the
\* list's recorded vertex offset as base vertex and instances 0..1, and
\* moves the cursor by count; a RawCallback batch draws nothing and leaves
\* the cursor.
C5_ReplayFollowsRecordedOffsets ==
    pc = "replay" =>
        /\ offsets = SubSeq(recorded, li + 1, Len(recorded))
        /\ in_list =>
               /\ << idx_offset, vtx_offset >> = recorded[li]
               /\ idx_begin = recorded[li][1] + consumed
               /\ cmd.kind = "Elements" =>
                      /\ Cardinality(DrawCalls) = 1
                      /\ calls[Len(calls)] =
                             << "draw_indexed",
                                recorded[li][1] + consumed - cmd.count,
                                recorded[li][1] + consumed,
                                recorded[li][2], 0, 1 >>
               /\ cmd.kind = "RawCallback" => DrawCalls = {}
               /\ (cmd.kind = "none" /\ ncmd = 0) => consumed = 0

\* two draw lists of 3 vertices and 3 indices: the second list's batch is
\* drawn over indices [3, 6) with base vertex 3
C5_Witness ==
    /\ pc = "replay"
    /\ draw_data = << [idx |-> 3, vtx |-> 3], [idx |-> 3, vtx |-> 3] >>
    /\ li = 2
    /\ cmd.kind = "Elements"
    /\ calls[Len(calls)] = << "draw_indexed", 3, 6, 3, 0, 1 >>

\* C6: the scissor set for an Elements batch, before its draw, is the floor
\* of the clip rectangle's min corner clamped to 0 and the ceiling of the
\* absolute extent; [-5,-5,50,50] gives origin (0,0) and [0,0,100,100] gives
\* (0,0,100,100).
C6_ScissorFromClipRect ==
    cmd.kind = "Elements" =>
        /\ Len(calls) >= 1
        /\ calls[1][1] = "set_scissor_rect"
        /\ \A i \in DrawCalls : i > 1
        /\ LET x  == calls[1][2]
               y  == calls[1][3]
               w  == calls[1][4]
               h  == calls[1][5]
               x0 == IF cmd.clip[1] > 0 THEN cmd.clip[1] ELSE 0
               y0 == IF cmd.clip[2] > 0 THEN cmd.clip[2] ELSE 0
               dx == IF cmd.clip[3] >= cmd.clip[1]
                     THEN cmd.clip[3] - cmd.clip[1] ELSE cmd.clip[1] - cmd.clip[3]
               dy == IF cmd.clip[4] >= cmd.clip[2]
                     THEN cmd.clip[4] - cmd.clip[2] ELSE cmd.clip[2] - cmd.clip[4]
           IN  /\ x * ClipDen <= x0 /\ x0 < (x + 1) * ClipDen
               /\ y * ClipDen <= y0 /\ y0 < (y + 1) * ClipDen
               /\ (w - 1) * ClipDen < dx /\ dx <= w * ClipDen
               /\ (h - 1) * ClipDen < dy /\ dy <= h * ClipDen
               /\ cmd.clip = << -5 * ClipDen, -5 * ClipDen, 50 * ClipDen, 50 * ClipDen >>
                      => (x = 0 /\ y = 0)
               /\ cmd.clip = << 0, 0, 100 * ClipDen, 100 * ClipDen >>
                      => << x, y, w, h >> = << 0, 0, 100, 100 >>

\* the batch with clip rectangle [-5,-5,50,50] has been replayed
C6_Witness ==
    /\ pc = "replay"
    /\ cmd.kind = "Elements"
    /\ cmd.clip = << -5 * ClipDen, -5 * ClipDen, 50 * ClipDen, 50 * ClipDen >>
    /\ calls[1] = << "set_scissor_rect", 0, 0, 55, 55 >>
    /\ DrawCalls # {}

Live(t) == DOMAIN t.map

\* C7: a registration returns a handle that is none of the live handles and
\* leaves every other live handle's lookup as it was; a removal makes the
\* lookup of the removed handle fail, from then on, and leaves every other
\* live handle's lookup as it was.
C7_HandlesAreFreshAndIndependent ==
    [][ /\ created' # created =>
               /\ ret' \notin Live(textures)
               /\ TexturesGet(textures', ret') = [some |-> TRUE, v |-> created]
               /\ \A h \in Live(textures) :
                      (font_tex_id' = font_tex_id \/ h # font_tex_id) =>
                          TexturesGet(textures', h) = TexturesGet(textures, h)
               /\ \A h \in Live(textures') \ {ret'} :
                      TexturesGet(textures', h) = TexturesGet(textures, h)
        /\ (created' = created /\ textures' # textures) =>
               \E id \in Live(textures) :
                   /\ ~TexturesGet(textures', id).some
                   /\ \A h \in 0..MaxTex : h # id =>
                          TexturesGet(textures', h) = TexturesGet(textures, h)
        /\ \A h \in 0..MaxTex :
               (h < textures.next /\ h \notin Live(textures)) => h \notin Live(textures')
      ]_vars

\* a texture registered after the font atlas' removal, next to another one
C7_Witness ==
    /\ Live(textures) = {1, 2}
    /\ ret = 2

\* an Elements batch whose texture handle is not in the table has been
\* reached: render panicked at it with no bind group and no draw issued
AbortedAtDanglingHandle ==
    (cmd.kind = "Elements" /\ cmd.tex \notin Live(textures)) =>
        /\ pc = "panicked"
        /\ panic_at = "texture"
        /\ \A i \in 1..Len(calls) :
               calls[i][1] \notin {"set_bind_group", "draw_indexed"}

\* C8: an Elements batch whose texture handle is absent from the texture
\* table aborts the frame at that batch: no bind and no draw for it, nothing
\* at all for the batches and draw lists after it, and it is never skipped.
C8_DanglingHandleAbortsFrame ==
    /\ []AbortedAtDanglingHandle
    /\ [][pc = "panicked" => (pc' = "panicked" /\ calls' = calls)]_vars

\* render panicked in the first of two draw lists on a batch that uses the
\* font atlas' handle after its removal
C8_Witness ==
    /\ pc = "panicked"
    /\ panic_at = "texture"
    /\ cmd.tex = 0
    /\ li = 1
    /\ Len(draw_data) = 2
    /\ Len(calls) = 1

=============================================================================
